---- MODULE Spec2Model ----
(***************************************************************************)
(* Model of the CCAR grid searches of catchment_tools.py:                  *)
(*   base_round, read_ccar, read_ccar_square, largest_ccar_close_by and    *)
(*   closest_ccar_above_val, with the DEPTH_CHECK_MAP over-scan table.     *)
(*                                                                         *)
(* The raster file is the input of the searches.  It is represented by a   *)
(* background raw value and a finite map of marked points, which is what   *)
(* raster_file.sample reads.  A search is a state machine: the call rounds *)
(* the coordinates and opens the raster, each iteration of the loop over   *)
(* depth scans one ring, and the return closes the raster.                 *)
(*                                                                         *)
(* The code's cell_dict["distance"] is sqrt(de^2 + dn^2) of integer        *)
(* offsets.  The model keeps the radicand in the field dist_sq; sqrt is    *)
(* strictly increasing, so <=, == and >= on the distances are the same     *)
(* comparisons on dist_sq.                                                 *)
(***************************************************************************)
EXTENDS Integers, Sequences, FiniteSets, TLC

\* ------------------------------------------------------------------ bounds
\* Largest max_depths / depth argument, and half-width in cells of the region
\* in which the marked raster points are placed, for the specification Spec.
MaxDepth == 2

\* Largest max_depths argument, and half-width in cells of the region in which
\* the marked raster points are placed, for the specification SpecDeep; and
\* largest depth argument of read_ccar_square for the specification SpecSquare.
MaxDeep == 20

\* Number of max_depths values beyond the last key of DEPTH_CHECK_MAP, for
\* the specification SpecBeyond.
MaxBeyond == 2

\* Largest absolute value of the coordinate rounded, for the specification
\* SpecRound: three grid steps on either side of zero.
MaxCoord == 150

\* ------------------------------------------------------- program constants
RESOLUTION == 50
NODATA_RAW == 2147483647
NODATA_VALUE == -999
DEFAULT_MIN_CCAR == 10
\* min_ccar and max_depths of the search made by CatchmentData._river_snapping.
SNAP_MIN_CCAR == 200
SNAP_MAX_DEPTHS == 20

\* Faulty variant: the table's values entered one key too late.
DEPTH_CHECK_MAP_shifted ==
    LET t == << 0, 0, 0, 0, 1, 1, 2, 2, 2, 3, 3, 4, 4, 4, 5, 5, 4, 3, 2, 1, 0 >>
    IN  [d \in 0..(Len(t) - 1) |-> t[d + 1]]

\* Faulty variant: the value for depth 7 is 1, one ring too few.
DEPTH_CHECK_MAP_short ==
    LET t == << 0, 0, 0, 1, 1, 2, 2, 1, 3, 3, 4, 4, 4, 5, 5, 5, 4, 3, 2, 1, 0 >>
    IN  [d \in 0..(Len(t) - 1) |-> t[d + 1]]

\* Faulty variant: the value for depth 16 is 3, so that the ring at which the
\* search stops moves from 20 (set at depth 15) back to 19.
DEPTH_CHECK_MAP_drop ==
    LET t == << 0, 0, 0, 1, 1, 2, 2, 2, 3, 3, 4, 4, 4, 5, 5, 5, 3, 3, 2, 1, 0 >>
    IN  [d \in 0..(Len(t) - 1) |-> t[d + 1]]

\* Faulty variant: the value for depth 7 is 3, one ring more than needed.
DEPTH_CHECK_MAP_loose ==
    LET t == << 0, 0, 0, 1, 1, 2, 2, 3, 3, 3, 4, 4, 4, 5, 5, 5, 4, 3, 2, 1, 0 >>
    IN  [d \in 0..(Len(t) - 1) |-> t[d + 1]]

DEPTH_CHECK_MAP ==
    LET t == << 0, 0, 0, 1, 1, 2, 2, 2, 3, 3, 4, 4, 4, 5, 5, 5, 4, 3, 2, 1, 0 >>
    IN  [d \in 0..(Len(t) - 1) |-> t[d + 1]]

\* Python's None, and a present value, as sequences of length 0 and 1.
None == << >>
Some(x) == << x >>

\* ------------------------------------------------------------- base_round
\* Python 3 round(): nearest integer, exact halves to the even neighbour.
\* x / base is an exact half only when x = base*k + base/2.
\* Faulty variant: exact halves go away from zero.
PyRound_half_away(num, den) ==
    LET q == num \div den
        r == num % den
    IN  IF 2 * r < den THEN q
        ELSE IF 2 * r > den THEN q + 1
        ELSE IF num >= 0 THEN q + 1 ELSE q

PyRound(num, den) ==
    LET q == num \div den
        r == num % den
    IN  IF 2 * r < den THEN q
        ELSE IF 2 * r > den THEN q + 1
        ELSE IF q % 2 = 0 THEN q ELSE q + 1

\* Faulty variant: the quotient is truncated downwards and one is added.
base_round_next(x, base) == base * ((x \div base) + 1)

base_round(x, base) == base * PyRound(x, base)

\* ---------------------------------------------------------------- raster
\* raster_file.sample([(e, n)]): the raw value stored at a grid point.
sample(rf, e, n) ==
    IF << e, n >> \in DOMAIN rf.cells THEN rf.cells[<< e, n >>] ELSE rf.bg

\* Faulty variant: the sentinel is returned as read.
read_ccar_raw(e, n, rf) ==
    sample(rf, base_round(e, RESOLUTION), base_round(n, RESOLUTION))

read_ccar(e, n, rf) ==
    LET e_r == base_round(e, RESOLUTION)
        n_r == base_round(n, RESOLUTION)
        val == sample(rf, e_r, n_r)
    IN  IF val = NODATA_RAW THEN NODATA_VALUE ELSE val

\* ------------------------------------------------------ read_ccar_square
\* Number of cells appended for a depth: the centre; or the e_depth_range
\* columns of 2*depth+1 cells, plus two rows of 2*depth-1 cells when
\* border_only.  A negative depth makes every range empty.
\* Faulty variant: the two rows counted with their corners.
NumCells_with_corners(depth, border_only) ==
    IF depth = 0 THEN 1
    ELSE IF depth < 0 THEN 0
    ELSE IF border_only THEN 4 * (2 * depth + 1)
    ELSE (2 * depth + 1) * (2 * depth + 1)

NumCells(depth, border_only) ==
    IF depth = 0 THEN 1
    ELSE IF depth < 0 THEN 0
    ELSE IF border_only THEN 2 * (2 * depth + 1) + 2 * (2 * depth - 1)
    ELSE (2 * depth + 1) * (2 * depth + 1)

\* The (e_depth, n_depth) pair of the i-th cell appended, in loop order:
\* "for e_depth in e_depth_range: for n_depth in range(-depth, depth + 1)",
\* then "for n_depth in [-depth, depth]: for e_depth in range(-depth + 1, depth)".
\* Faulty variant: the rows run over range(-depth, depth - 1), so each starts
\* on a corner already read and stops one cell short of the east column.
Offset_rows_from_corner(depth, border_only, i) ==
    LET w == 2 * depth + 1
        cols == IF border_only THEN 2 ELSE w
        col == (i - 1) \div w
        k == i - cols * w
        w2 == 2 * depth - 1
    IN  IF depth = 0 THEN << 0, 0 >>
        ELSE IF i <= cols * w
             THEN << IF border_only
                     THEN (IF col = 0 THEN -depth ELSE depth)
                     ELSE col - depth,
                     ((i - 1) % w) - depth >>
        ELSE << ((k - 1) % w2) - depth,
                IF (k - 1) \div w2 = 0 THEN -depth ELSE depth >>

\* Faulty variant: e_depth_range = [depth, -depth], east column first.
Offset_east_first(depth, border_only, i) ==
    LET w == 2 * depth + 1
        cols == IF border_only THEN 2 ELSE w
        col == (i - 1) \div w
        k == i - cols * w
        w2 == 2 * depth - 1
    IN  IF depth = 0 THEN << 0, 0 >>
        ELSE IF i <= cols * w
             THEN << IF border_only
                     THEN (IF col = 0 THEN depth ELSE -depth)
                     ELSE col - depth,
                     ((i - 1) % w) - depth >>
        ELSE << ((k - 1) % w2) - depth + 1,
                IF (k - 1) \div w2 = 0 THEN -depth ELSE depth >>

Offset(depth, border_only, i) ==
    LET w == 2 * depth + 1
        cols == IF border_only THEN 2 ELSE w
        col == (i - 1) \div w
        k == i - cols * w
        w2 == 2 * depth - 1
    IN  IF depth = 0 THEN << 0, 0 >>
        ELSE IF i <= cols * w
             THEN << IF border_only
                     THEN (IF col = 0 THEN -depth ELSE depth)
                     ELSE col - depth,
                     ((i - 1) % w) - depth >>
        ELSE << ((k - 1) % w2) - depth + 1,
                IF (k - 1) \div w2 = 0 THEN -depth ELSE depth >>

\* Faulty variant: the distance is computed in cells, not in metres.
CellDict_distance_in_cells(e, n, off, rf) ==
    LET this_easting == e + RESOLUTION * off[1]
        this_northing == n + RESOLUTION * off[2]
    IN  [easting |-> this_easting,
         northing |-> this_northing,
         ccar |-> read_ccar(this_easting, this_northing, rf),
         dist_sq |-> off[1] * off[1] + off[2] * off[2]]

CellDict(e, n, off, rf) ==
    LET this_easting == e + RESOLUTION * off[1]
        this_northing == n + RESOLUTION * off[2]
    IN  [easting |-> this_easting,
         northing |-> this_northing,
         ccar |-> read_ccar(this_easting, this_northing, rf),
         dist_sq |-> (this_easting - e) * (this_easting - e)
                     + (this_northing - n) * (this_northing - n)]

read_ccar_square(e, n, depth, border_only, rf) ==
    [i \in 1..NumCells(depth, border_only) |->
        CellDict(e, n, Offset(depth, border_only, i), rf)]

\* ------------------------------------------------------ sampling failure
\* raster_file.sample is file I/O and can raise.  fail is None, or Some(p)
\* for the grid point p at which sample raises.  Nothing between sample and
\* the caller of the search catches the exception.

\* Faulty variant: the exception is caught inside read_ccar.
read_ccar_swallows(e, n, fail) == FALSE

\* read_ccar(e, n, raster_file) raises: sample is called with the rounded
\* coordinates.
read_ccar_raises(e, n, fail) ==
    fail = Some(<< base_round(e, RESOLUTION), base_round(n, RESOLUTION) >>)

\* Index, in loop order, of the first cell of read_ccar_square whose read
\* raises; 0 when the whole list is built.
first_raise(e, n, depth, border_only, fail) ==
    IF fail = None THEN 0
    ELSE LET S == { i \in 1..NumCells(depth, border_only) :
                      LET off == Offset(depth, border_only, i)
                      IN  read_ccar_raises(e + RESOLUTION * off[1],
                                           n + RESOLUTION * off[2], fail) }
         IN  IF S = {} THEN 0 ELSE CHOOSE i \in S : \A j \in S : i <= j

\* ----------------------------------------------------- read_ccar's handle
\* Faulty variant: read_ccar closes the raster whoever opened it.
read_ccar_closes_always(given) == TRUE

\* close_raster (lines 628-633): read_ccar closes the raster after sampling
\* exactly when no raster_file was given and it opened one itself.
read_ccar_closes(given) == ~given

\* The state of the caller's handle h after n calls of read_ccar, and the
\* number of rasterio.open calls these make.
after_reads(h, n, given) ==
    IF n > 0 /\ read_ccar_closes(given) THEN "closed" ELSE h
opens_by_reads(n, given) == IF given THEN 0 ELSE n

\* ------------------------------------------------- closest_ccar_above_val
\* Faulty variant: the table is never consulted.
lookup_extra_unset(acc, depth) == acc

\* Faulty variant: no extra ring is granted, whatever the depth.
lookup_extra_zero(acc, depth) == [acc EXCEPT !.extra = Some(0)]

\* extra_depths = DEPTH_CHECK_MAP[depth]; a depth that is no key raises.
lookup_extra(acc, depth) ==
    IF depth \in DOMAIN DEPTH_CHECK_MAP
    THEN [acc EXCEPT !.extra = Some(DEPTH_CHECK_MAP[depth])]
    ELSE [acc EXCEPT !.raised = Some("KeyError")]

\* Faulty variant: the threshold test is strict.
closest_cell_strict(acc, cell_dict, depth, min) ==
    IF acc.raised # None THEN acc
    ELSE IF ~(cell_dict.ccar > min) THEN acc
    ELSE IF acc.best = None
         THEN lookup_extra([acc EXCEPT !.best = Some(cell_dict)], depth)
    ELSE IF cell_dict.dist_sq <= acc.best[1].dist_sq
         THEN IF cell_dict.dist_sq = acc.best[1].dist_sq
                 /\ cell_dict.ccar <= acc.best[1].ccar
              THEN acc
              ELSE lookup_extra([acc EXCEPT !.best = Some(cell_dict)], depth)
    ELSE lookup_extra(acc, depth)

\* Faulty variant: on equal distance a cell of equal value replaces the best.
closest_cell_tie_replaces(acc, cell_dict, depth, min) ==
    IF acc.raised # None THEN acc
    ELSE IF ~(cell_dict.ccar >= min) THEN acc
    ELSE IF acc.best = None
         THEN lookup_extra([acc EXCEPT !.best = Some(cell_dict)], depth)
    ELSE IF cell_dict.dist_sq <= acc.best[1].dist_sq
         THEN IF cell_dict.dist_sq = acc.best[1].dist_sq
                 /\ cell_dict.ccar < acc.best[1].ccar
              THEN acc
              ELSE lookup_extra([acc EXCEPT !.best = Some(cell_dict)], depth)
    ELSE lookup_extra(acc, depth)

\* Faulty variant: the first qualifying cell found is never replaced.
closest_cell_keeps_first(acc, cell_dict, depth, min) ==
    IF acc.raised # None THEN acc
    ELSE IF ~(cell_dict.ccar >= min) THEN acc
    ELSE IF acc.best = None
         THEN lookup_extra([acc EXCEPT !.best = Some(cell_dict)], depth)
    ELSE lookup_extra(acc, depth)

\* The body of "for cell_dict in cell_dicts" for one cell.  acc carries
\* best_cell, extra_depths and a raised exception.
closest_cell(acc, cell_dict, depth, min) ==
    IF acc.raised # None THEN acc
    ELSE IF ~(cell_dict.ccar >= min) THEN acc
    ELSE IF acc.best = None
         THEN lookup_extra([acc EXCEPT !.best = Some(cell_dict)], depth)
    ELSE IF cell_dict.dist_sq <= acc.best[1].dist_sq
         THEN IF cell_dict.dist_sq = acc.best[1].dist_sq
                 /\ cell_dict.ccar <= acc.best[1].ccar
              THEN acc
              ELSE lookup_extra([acc EXCEPT !.best = Some(cell_dict)], depth)
    ELSE lookup_extra(acc, depth)

\* "for cell_dict in cell_dicts" over the cells lo..hi, in increasing index:
\* the cells lo..mid first, then, unless they raised, the cells mid+1..hi
\* from the best_cell and extra_depths they left.  (left is bound by a set
\* constructor so that it is computed once.)
RECURSIVE closest_cells(_, _, _, _, _, _)
closest_cells(acc, cell_dicts, lo, hi, depth, min) ==
    IF lo > hi THEN acc
    ELSE IF lo = hi THEN closest_cell(acc, cell_dicts[lo], depth, min)
    ELSE CHOOSE r \in
           { IF left.raised # None THEN left
             ELSE closest_cells(left, cell_dicts, ((lo + hi) \div 2) + 1, hi,
                                depth, min) :
             left \in { closest_cells(acc, cell_dicts, lo, (lo + hi) \div 2,
                                      depth, min) } } : TRUE

\* -------------------------------------------------- largest_ccar_close_by
\* Faulty variant: on equal value the farther cell replaces the best.
largest_cell_farther(best, cell_dict) ==
    IF best = None THEN Some(cell_dict)
    ELSE IF cell_dict.ccar >= best[1].ccar
         THEN IF cell_dict.ccar = best[1].ccar
                 /\ cell_dict.dist_sq <= best[1].dist_sq
              THEN best
              ELSE Some(cell_dict)
    ELSE best

\* Faulty variant: cells without data are skipped.
largest_cell_skips_nodata(best, cell_dict) ==
    IF cell_dict.ccar = NODATA_VALUE THEN best
    ELSE IF best = None THEN Some(cell_dict)
    ELSE IF cell_dict.ccar >= best[1].ccar
         THEN IF cell_dict.ccar = best[1].ccar
                 /\ cell_dict.dist_sq >= best[1].dist_sq
              THEN best
              ELSE Some(cell_dict)
    ELSE best

largest_cell(best, cell_dict) ==
    IF best = None THEN Some(cell_dict)
    ELSE IF cell_dict.ccar >= best[1].ccar
         THEN IF cell_dict.ccar = best[1].ccar
                 /\ cell_dict.dist_sq >= best[1].dist_sq
              THEN best
              ELSE Some(cell_dict)
    ELSE best

\* "for cell_dict in cell_dicts" over the cells lo..hi, in increasing index:
\* the cells lo..mid first, then the cells mid+1..hi from the best_cell they
\* left.  (left is bound by a set constructor so that it is computed once.)
RECURSIVE largest_cells(_, _, _, _)
largest_cells(best, cell_dicts, lo, hi) ==
    IF lo > hi THEN best
    ELSE IF lo = hi THEN largest_cell(best, cell_dicts[lo])
    ELSE CHOOSE r \in
           { largest_cells(left, cell_dicts, ((lo + hi) \div 2) + 1, hi) :
             left \in { largest_cells(best, cell_dicts, lo, (lo + hi) \div 2) } } :
           TRUE

\* ------------------------------------------------------------------ state
VARIABLES
    self,          \* the attributes set so far on the CatchmentData object
                   \* under construction (no attribute: no object)
    snap_to_river, \* argument snap_to_river of CatchmentData.__init__
    fn,            \* the function running: "closest", "largest", "square"
                   \* (read_ccar_square itself), "round" (base_round itself),
                   \* "read" (read_ccar itself) or "CatchmentData" (__init__)
    easting_raw,   \* the easting the caller holds (CatchmentData.easting_raw)
    northing_raw,  \* the northing the caller holds
    easting,       \* argument easting, rebound to its rounded value by the call
    northing,      \* argument northing, likewise
    min_ccar,      \* argument min_ccar of closest_ccar_above_val
    max_depths,    \* argument max_depths of closest_ccar_above_val
    depth,         \* argument depth of largest_ccar_close_by; in
                   \* closest_ccar_above_val the next value of the loop variable
    raster,        \* contents of the file at paths.CCAR_FILE
    fail_at,       \* None, or Some(p): raster_file.sample raises at point p
    raster_file,   \* the rasterio handle: "closed" or "open"
    opens,         \* number of rasterio.open calls so far
    samples,       \* number of raster_file.sample calls so far
    best_cell,     \* None or Some(cell_dict)
    extra_depths,  \* None or Some(n)
    rings,         \* the ring depths scanned so far by closest_ccar_above_val
    cell_dicts,    \* the list last returned by read_ccar_square
    border_dicts,  \* the lists returned for border_only=True so far, joined
                   \* (direct calls of read_ccar_square only)
    pc,            \* "start", "loop", "scan", "rounded", "region", "done",
                   \* "raised"
    result,        \* the value returned, once pc = "done"
    raised         \* the exception that ended the call, once pc = "raised"

vars == << self, snap_to_river, fn, easting_raw, northing_raw, easting, northing, min_ccar,
           max_depths, depth, raster, fail_at, raster_file, opens, samples,
           best_cell, extra_depths, rings, cell_dicts, border_dicts, pc,
           result, raised >>

\* ----------------------------------------------------------------- inputs
\* The site the marked raster points are placed around, and the call's
\* coordinates: a point off the grid that rounds to the site (1024 rounds
\* down, 1975 is an exact half and rounds to the even multiple).
Site == << 1000, 2000 >>
InputPoints == { << 1024, 1975 >> }

SitePoint(off) == << Site[1] + RESOLUTION * off[1], Site[2] + RESOLUTION * off[2] >>

Near == (-MaxDepth..MaxDepth) \X (-MaxDepth..MaxDepth)
BackgroundValues == { NODATA_RAW, 5 }
MarkedValues == { NODATA_RAW, NODATA_VALUE, DEFAULT_MIN_CCAR, 11 }
SecondMarkValues == { DEFAULT_MIN_CCAR, 11 }
MinCcars == { NODATA_VALUE, DEFAULT_MIN_CCAR }

\* A raster with background b and two marked points (one when they coincide).
Raster(b, p1, v1, p2, v2) == [bg |-> b, cells |-> (p1 :> v1) @@ (p2 :> v2)]

InitLocals ==
    /\ raster_file = "closed"
    /\ opens = 0
    /\ samples = 0
    /\ best_cell = None
    /\ extra_depths = None
    /\ rings = << >>
    /\ cell_dicts = << >>
    /\ border_dicts = << >>
    /\ pc = "start"
    /\ result = None
    /\ raised = None

\* No attribute set: no object is under construction.
NoObject == [a \in {} |-> None]

\* A search called on its own, outside any constructor.
InitCall ==
    /\ self = NoObject
    /\ snap_to_river = FALSE
    /\ InitLocals

InitRaster ==
    \E b \in BackgroundValues, o1 \in Near, o2 \in Near,
       v1 \in MarkedValues, v2 \in SecondMarkValues :
        raster = Raster(b, SitePoint(o1), v1, SitePoint(o2), v2)

\* The call's coordinates are the ones the caller holds.
InitPoint ==
    \E p \in InputPoints :
        /\ easting_raw = p[1] /\ northing_raw = p[2]
        /\ easting = p[1] /\ northing = p[2]

Init ==
    /\ InitCall
    /\ InitRaster
    /\ fail_at = None
    /\ InitPoint
    /\ \/ /\ fn = "closest"
          /\ min_ccar \in MinCcars
          /\ max_depths \in 0..MaxDepth
          /\ depth = 0
       \/ /\ fn = "largest"
          /\ min_ccar = DEFAULT_MIN_CCAR
          /\ depth \in 0..MaxDepth
          /\ max_depths = depth

\* ---------------------------------------------------------------- actions
\* Faulty variant: the coordinates are used as given.
closest_call_unrounded ==
    /\ pc = "start"
    /\ fn = "closest"
    /\ raster_file' = "open"
    /\ opens' = opens + 1
    /\ best_cell' = None
    /\ extra_depths' = None
    /\ depth' = 0
    /\ pc' = "loop"
    /\ UNCHANGED << self, snap_to_river, fn, easting_raw, northing_raw,
                    easting, northing, min_ccar,
                    max_depths, raster, fail_at, samples, rings, cell_dicts,
                    border_dicts, result, raised >>

\* closest_ccar_above_val, lines 768-776: round, open, initialise.
closest_call ==
    /\ pc = "start"
    /\ fn = "closest"
    /\ easting' = base_round(easting, RESOLUTION)
    /\ northing' = base_round(northing, RESOLUTION)
    /\ raster_file' = "open"
    /\ opens' = opens + 1
    /\ best_cell' = None
    /\ extra_depths' = None
    /\ depth' = 0
    /\ pc' = "loop"
    /\ UNCHANGED << self, snap_to_river, fn, easting_raw, northing_raw,
                    min_ccar, max_depths,
                    raster, fail_at, samples, rings, cell_dicts, border_dicts,
                    result, raised >>

\* Faulty variant: the loop runs over range(0, max_depths + 2).
closest_ring_one_more ==
    /\ pc = "loop"
    /\ depth <= max_depths + 1
    /\ extra_depths # Some(0)
    /\ LET extra == IF extra_depths = None THEN None
                    ELSE Some(extra_depths[1] - 1)
           n == NumCells(depth, TRUE)
           k == first_raise(easting, northing, depth, TRUE, fail_at)
       IN  IF k > 0
           THEN \* read_ccar_square raises at its k-th read: the list is not
                \* returned and line 816 is not reached.
                /\ extra_depths' = extra
                /\ samples' = samples + k
                /\ raised' = Some("RasterioIOError")
                /\ pc' = "raised"
                /\ raster_file' = after_reads(raster_file, k - 1, TRUE)
                /\ opens' = opens + opens_by_reads(k, TRUE)
                /\ UNCHANGED << best_cell, rings, cell_dicts, depth >>
           ELSE /\ cell_dicts' =
                      read_ccar_square(easting, northing, depth, TRUE, raster)
                /\ \E acc \in { closest_cells([best |-> best_cell,
                                                extra |-> extra,
                                                raised |-> None],
                                               cell_dicts', 1, n, depth,
                                               min_ccar) } :
                       /\ best_cell' = acc.best
                       /\ extra_depths' = acc.extra
                       /\ samples' = samples + n
                       /\ raster_file' = after_reads(raster_file, n, TRUE)
                       /\ opens' = opens + opens_by_reads(n, TRUE)
                       /\ rings' = Append(rings, depth)
                       /\ raised' = acc.raised
                       /\ IF acc.raised = None
                          THEN depth' = depth + 1 /\ pc' = "loop"
                          ELSE depth' = depth /\ pc' = "raised"
    /\ UNCHANGED << self, snap_to_river, fn, easting_raw, northing_raw,
                    easting, northing, min_ccar, max_depths, raster, fail_at,
                    border_dicts, result >>

\* One iteration of "for depth in range(0, max_depths + 1)" that does not break.
closest_ring ==
    /\ pc = "loop"
    /\ depth <= max_depths
    /\ extra_depths # Some(0)
    /\ LET extra == IF extra_depths = None THEN None
                    ELSE Some(extra_depths[1] - 1)
           n == NumCells(depth, TRUE)
           k == first_raise(easting, northing, depth, TRUE, fail_at)
       IN  IF k > 0
           THEN \* read_ccar_square raises at its k-th read: the list is not
                \* returned and line 816 is not reached.
                /\ extra_depths' = extra
                /\ samples' = samples + k
                /\ raised' = Some("RasterioIOError")
                /\ pc' = "raised"
                /\ raster_file' = after_reads(raster_file, k - 1, TRUE)
                /\ opens' = opens + opens_by_reads(k, TRUE)
                /\ UNCHANGED << best_cell, rings, cell_dicts, depth >>
           ELSE /\ cell_dicts' =
                      read_ccar_square(easting, northing, depth, TRUE, raster)
                /\ \E acc \in { closest_cells([best |-> best_cell,
                                                extra |-> extra,
                                                raised |-> None],
                                               cell_dicts', 1, n, depth,
                                               min_ccar) } :
                       /\ best_cell' = acc.best
                       /\ extra_depths' = acc.extra
                       /\ samples' = samples + n
                       /\ raster_file' = after_reads(raster_file, n, TRUE)
                       /\ opens' = opens + opens_by_reads(n, TRUE)
                       /\ rings' = Append(rings, depth)
                       /\ raised' = acc.raised
                       /\ IF acc.raised = None
                          THEN depth' = depth + 1 /\ pc' = "loop"
                          ELSE depth' = depth /\ pc' = "raised"
    /\ UNCHANGED << self, snap_to_river, fn, easting_raw, northing_raw,
                    easting, northing, min_ccar, max_depths, raster, fail_at,
                    border_dicts, result >>

\* The loop ends (range exhausted, or break on extra_depths == 0), the raster
\* is closed and best_cell returned.
closest_return ==
    /\ pc = "loop"
    /\ depth > max_depths \/ extra_depths = Some(0)
    /\ raster_file' = "closed"
    /\ result' = best_cell
    /\ pc' = "done"
    /\ UNCHANGED << self, snap_to_river, fn, easting_raw, northing_raw,
                    easting, northing, min_ccar,
                    max_depths, depth, raster, fail_at, opens, samples,
                    best_cell, extra_depths, rings, cell_dicts, border_dicts,
                    raised >>

\* largest_ccar_close_by, lines 732-739: round, open, initialise.
largest_call ==
    /\ pc = "start"
    /\ fn = "largest"
    /\ easting' = base_round(easting, RESOLUTION)
    /\ northing' = base_round(northing, RESOLUTION)
    /\ raster_file' = "open"
    /\ opens' = opens + 1
    /\ best_cell' = None
    /\ pc' = "scan"
    /\ UNCHANGED << self, snap_to_river, fn, easting_raw, northing_raw,
                    min_ccar, max_depths,
                    depth, raster, fail_at, samples, extra_depths, rings,
                    cell_dicts, border_dicts, result, raised >>

\* largest_ccar_close_by, lines 741-759: read the square, pick, close, return.
largest_scan ==
    /\ pc = "scan"
    /\ LET n == NumCells(depth, FALSE)
           k == first_raise(easting, northing, depth, FALSE, fail_at)
       IN  IF k > 0
           THEN \* read_ccar_square raises at its k-th read: lines 744-759
                \* are not reached.
                /\ samples' = samples + k
                /\ raised' = Some("RasterioIOError")
                /\ pc' = "raised"
                /\ raster_file' = after_reads(raster_file, k - 1, TRUE)
                /\ opens' = opens + opens_by_reads(k, TRUE)
                /\ UNCHANGED << best_cell, result, cell_dicts >>
           ELSE /\ cell_dicts' =
                      read_ccar_square(easting, northing, depth, FALSE, raster)
                /\ \E best \in { largest_cells(best_cell, cell_dicts', 1, n) } :
                       best_cell' = best /\ result' = best
                /\ samples' = samples + n
                /\ opens' = opens + opens_by_reads(n, TRUE)
                /\ raster_file' = "closed"
                /\ pc' = "done"
                /\ UNCHANGED raised
    /\ UNCHANGED << self, snap_to_river, fn, easting_raw, northing_raw,
                    easting, northing, min_ccar, max_depths, depth, raster,
                    fail_at, extra_depths, rings, border_dicts >>

Next ==
    \/ closest_call
    \/ closest_ring
    \/ closest_return
    \/ largest_call
    \/ largest_scan

Spec == Init /\ [][Next]_vars

\* ------------------------------------------------- deep searches (SpecDeep)
\* closest_ccar_above_val alone, with max_depths up to MaxDeep, over rasters
\* whose cells are below min_ccar except for at most one cell on the
\* north-east diagonal (the farthest points of a ring, read last in their
\* column) and at most one cell on the west or south axis (the nearest
\* points of a ring, read in the first column and in the first row).
\* The marked cells lie within the searched square: no cell outside it is read.
DeepDiagonal(m) == { << d, d >> : d \in 0..m }
DeepAxis(m) == { << -r, 0 >> : r \in 1..m } \cup { << 0, -r >> : r \in 1..m }
AtMostOne(S) == { {} } \cup { { o } : o \in S }

\* A raster with background b and value v at the given offsets from the site.
MarkedRaster(b, offs, v) ==
    [bg |-> b, cells |-> [p \in { SitePoint(o) : o \in offs } |-> v]]

InitDeep ==
    /\ InitCall
    /\ fail_at = None
    /\ fn = "closest"
    /\ min_ccar = DEFAULT_MIN_CCAR
    /\ max_depths \in 0..MaxDeep
    /\ depth = 0
    /\ InitPoint
    /\ \E D \in AtMostOne(DeepDiagonal(max_depths)),
          A \in AtMostOne(DeepAxis(max_depths)) :
          raster = MarkedRaster(5, D \cup A, DEFAULT_MIN_CCAR)

NextClosest ==
    \/ closest_call
    \/ closest_ring
    \/ closest_return

SpecDeep == InitDeep /\ [][NextClosest]_vars

\* The same searches over rasters with at most one cell at min_ccar, run to
\* their end: the interpreter takes a step whenever one can be taken.
InitDeepOne ==
    /\ InitCall
    /\ fail_at = None
    /\ fn = "closest"
    /\ min_ccar = DEFAULT_MIN_CCAR
    /\ max_depths \in 0..MaxDeep
    /\ depth = 0
    /\ InitPoint
    /\ \E A \in AtMostOne(DeepDiagonal(max_depths) \cup DeepAxis(max_depths)) :
          raster = MarkedRaster(5, A, DEFAULT_MIN_CCAR)

SpecDeepLive == InitDeepOne /\ [][NextClosest]_vars /\ WF_vars(NextClosest)

\* ------------------------------------ searches beyond the table (SpecBeyond)
\* closest_ccar_above_val with max_depths above the last key of
\* DEPTH_CHECK_MAP, over rasters with at most one cell at min_ccar, on the
\* west or south axis or on the north-east diagonal, within max_depths.
BeyondDepths ==
    LET last == CHOOSE k \in DOMAIN DEPTH_CHECK_MAP :
                    \A j \in DOMAIN DEPTH_CHECK_MAP : j <= k
    IN  (last + 1)..(last + MaxBeyond)

InitBeyond ==
    /\ InitCall
    /\ fail_at = None
    /\ fn = "closest"
    /\ min_ccar = DEFAULT_MIN_CCAR
    /\ max_depths \in BeyondDepths
    /\ depth = 0
    /\ InitPoint
    /\ \E A \in AtMostOne(DeepDiagonal(max_depths) \cup DeepAxis(max_depths)) :
          raster = MarkedRaster(5, A, DEFAULT_MIN_CCAR)

SpecBeyond == InitBeyond /\ [][NextClosest]_vars

\* ------------------------------------- river-snapping scenario (SpecScenario)
\* closest_ccar_above_val with min_ccar 200 around the site (1000, 2000), on a
\* raster that holds 50 at (1000, 2050), 250 at (1050, 2050) and 300 at
\* (1000, 1950), every other cell holding one value below 200 (or no data);
\* for max_depths from 1 to MaxDeep and coordinates that round to the site.
ScenarioBackgrounds == { NODATA_RAW, 0, 5, SNAP_MIN_CCAR - 1 }
ScenarioRaster(b) ==
    [bg |-> b,
     cells |-> (SitePoint(<< 0, 1 >>) :> 50) @@ (SitePoint(<< 1, 1 >>) :> 250)
               @@ (SitePoint(<< 0, -1 >>) :> 300)]
ScenarioPoints ==
    { << 1024, 1975 >>, << 976, 2025 >>, << 1025, 2024 >>, << 1000, 2000 >> }

InitScenario ==
    /\ InitCall
    /\ fn = "closest"
    /\ fail_at = None
    /\ min_ccar = SNAP_MIN_CCAR
    /\ max_depths \in 1..MaxDeep
    /\ depth = 0
    /\ \E b \in ScenarioBackgrounds : raster = ScenarioRaster(b)
    /\ \E p \in ScenarioPoints :
          /\ easting_raw = p[1] /\ northing_raw = p[2]
          /\ easting = p[1] /\ northing = p[2]

SpecScenario == InitScenario /\ [][NextClosest]_vars

\* ------------------------------------ CatchmentData.__init__ (SpecSnap)
\* Bounding boxes of Northern Ireland, [x_min, y_min, x_max, y_max].
west_ni == << 0, 469190, 143723, 614827 >>
east_ni == << 143723, 469190, 185797, 597050 >>

\* _get_region: "ni" inside one of the two boxes, "gb" otherwise. The east
\* box is tested only when the easting is outside the west box's range.
_get_region(e, n) ==
    IF e >= west_ni[1] /\ e <= west_ni[3]
    THEN IF n >= west_ni[2] /\ n <= west_ni[4] THEN "ni" ELSE "gb"
    ELSE IF e >= east_ni[1] /\ e <= east_ni[3]
         THEN IF n >= east_ni[2] /\ n <= east_ni[4] THEN "ni" ELSE "gb"
         ELSE "gb"

\* __init__ up to the choice on snap_to_river: the raw coordinates are kept;
\* with snap_to_river, _river_snapping calls closest_ccar_above_val on them
\* with min_ccar=200 and max_depths=20; without, they become the coordinates.
CatchmentData_init ==
    /\ fn = "CatchmentData"
    /\ pc = "start"
    /\ IF snap_to_river
       THEN /\ self' = [easting_raw |-> easting_raw,
                        northing_raw |-> northing_raw]
            /\ fn' = "closest"
            /\ easting' = easting_raw
            /\ northing' = northing_raw
            /\ min_ccar' = SNAP_MIN_CCAR
            /\ max_depths' = SNAP_MAX_DEPTHS
            /\ pc' = "start"
       ELSE /\ self' = [easting_raw |-> easting_raw,
                        northing_raw |-> northing_raw,
                        easting |-> easting_raw,
                        northing |-> northing_raw]
            /\ pc' = "region"
            /\ UNCHANGED << fn, easting, northing, min_ccar, max_depths >>
    /\ UNCHANGED << snap_to_river, easting_raw, northing_raw, depth, raster,
                    fail_at, raster_file, opens, samples, best_cell,
                    extra_depths, rings, cell_dicts, border_dicts, result,
                    raised >>

\* Faulty variant: when no cell is found the raw coordinates are used.
river_snapping_return_falls_back ==
    /\ fn = "closest"
    /\ pc = "done"
    /\ DOMAIN self = { "easting_raw", "northing_raw" }
    /\ fn' = "CatchmentData"
    /\ IF result = None
       THEN self' = [easting_raw |-> self.easting_raw,
                     northing_raw |-> self.northing_raw,
                     easting |-> self.easting_raw,
                     northing |-> self.northing_raw]
       ELSE self' = [easting_raw |-> self.easting_raw,
                     northing_raw |-> self.northing_raw,
                     easting |-> result[1].easting,
                     northing |-> result[1].northing]
    /\ pc' = "region"
    /\ UNCHANGED << snap_to_river, easting_raw, northing_raw, easting,
                    northing, min_ccar, max_depths, depth, raster, fail_at,
                    raster_file, opens, samples, best_cell, extra_depths,
                    rings, cell_dicts, border_dicts, result, raised >>

\* _river_snapping once the search has returned: UserWarning when cell_dict
\* is None, else the cell's coordinates become the object's.
river_snapping_return ==
    /\ fn = "closest"
    /\ pc = "done"
    /\ DOMAIN self = { "easting_raw", "northing_raw" }
    /\ fn' = "CatchmentData"
    /\ IF result = None
       THEN /\ raised' = Some("UserWarning")
            /\ pc' = "raised"
            /\ UNCHANGED self
       ELSE /\ self' = [easting_raw |-> self.easting_raw,
                        northing_raw |-> self.northing_raw,
                        easting |-> result[1].easting,
                        northing |-> result[1].northing]
            /\ pc' = "region"
            /\ UNCHANGED raised
    /\ UNCHANGED << snap_to_river, easting_raw, northing_raw, easting,
                    northing, min_ccar, max_depths, depth, raster, fail_at,
                    raster_file, opens, samples, best_cell, extra_depths,
                    rings, cell_dicts, border_dicts, result >>

\* The attributes __init__ sets after the coordinates.
LaterAttributes ==
    { "region", "station", "FEH_data", "LCM_2000_data", "LCM_2007_data",
      "LCM_2015_data", "QCN_data", "_valid_desc_types", "_valid_LCM_years" }

\* The rest of __init__: region, station (its default) and the descriptor
\* attributes.
CatchmentData_finish ==
    /\ fn = "CatchmentData"
    /\ pc = "region"
    /\ self' = [easting_raw |-> self.easting_raw,
                northing_raw |-> self.northing_raw,
                easting |-> self.easting,
                northing |-> self.northing,
                region |-> _get_region(self.easting, self.northing),
                station |-> "",
                FEH_data |-> None,
                LCM_2000_data |-> None,
                LCM_2007_data |-> None,
                LCM_2015_data |-> None,
                QCN_data |-> None,
                _valid_desc_types |-> << "FEH", "LCM2000", "LCM2007",
                                         "LCM2015" >>,
                _valid_LCM_years |-> << 2000, 2007, 2015 >>]
    /\ pc' = "done"
    /\ UNCHANGED << snap_to_river, fn, easting_raw, northing_raw, easting,
                    northing, min_ccar, max_depths, depth, raster, fail_at,
                    raster_file, opens, samples, best_cell, extra_depths,
                    rings, cell_dicts, border_dicts, result, raised >>

\* A site off the grid and one on it.
SnapPoints == { << 1024, 1975 >>, << 1000, 2000 >> }
SnapValues == { SNAP_MIN_CCAR - 1, SNAP_MIN_CCAR }

\* Constructions with and without snap_to_river, over rasters with at most
\* one marked cell, just below or at the snapping threshold, up to one ring
\* beyond the rings the snapping search scans.
InitSnap ==
    /\ self = NoObject
    /\ snap_to_river \in BOOLEAN
    /\ InitLocals
    /\ fail_at = None
    /\ fn = "CatchmentData"
    /\ min_ccar = DEFAULT_MIN_CCAR
    /\ max_depths = 0
    /\ depth = 0
    /\ \E p \in SnapPoints :
          /\ easting_raw = p[1] /\ northing_raw = p[2]
          /\ easting = p[1] /\ northing = p[2]
    /\ \E A \in AtMostOne(DeepDiagonal(MaxDeep + 1) \cup DeepAxis(MaxDeep + 1)),
          v \in SnapValues :
          raster = MarkedRaster(5, A, v)

NextSnap ==
    \/ CatchmentData_init
    \/ closest_call
    \/ closest_ring
    \/ closest_return
    \/ river_snapping_return
    \/ CatchmentData_finish

SpecSnap == InitSnap /\ [][NextSnap]_vars

\* ------------------------------------ calls of every kind (SpecCalls)
\* Both searches, on rasters with at most one cell at min_ccar, with
\* coordinates that reach the site from each side (1025, 1975 and 2025 are
\* exact halves), with depth arguments from -1 (the functions do not check
\* them), and with a raster whose sample raises at no point or at one point
\* near the site.
CallPoints ==
    { << 1024, 1975 >>, << 976, 2025 >>, << 1025, 2024 >>, << 1000, 2000 >> }
CallDepths == -1..MaxDepth
FailPoints == { None } \cup { Some(SitePoint(o)) : o \in Near }

InitCalls ==
    /\ InitCall
    /\ fail_at \in FailPoints
    /\ \E A \in AtMostOne(Near) :
          raster = MarkedRaster(5, A, DEFAULT_MIN_CCAR)
    /\ \E p \in CallPoints :
          /\ easting_raw = p[1] /\ northing_raw = p[2]
          /\ easting = p[1] /\ northing = p[2]
    /\ min_ccar = DEFAULT_MIN_CCAR
    /\ \/ /\ fn = "closest"
          /\ max_depths \in CallDepths
          /\ depth = 0
       \/ /\ fn = "largest"
          /\ depth \in CallDepths
          /\ max_depths = depth

SpecCalls == InitCalls /\ [][Next]_vars

\* ------------------------------------ handles (SpecHandles)
\* read_ccar called directly, without a raster_file: it opens the raster,
\* samples the rounded point and closes the raster before returning the
\* value; when the sample raises, the close is not reached.
read_call ==
    /\ fn = "read"
    /\ pc = "start"
    /\ samples' = samples + 1
    /\ IF read_ccar_raises(easting, northing, fail_at)
       THEN /\ opens' = opens + 1
            /\ raster_file' = "open"
            /\ raised' = Some("RasterioIOError")
            /\ pc' = "raised"
            /\ UNCHANGED result
       ELSE /\ opens' = opens + opens_by_reads(1, FALSE)
            /\ raster_file' = after_reads("open", 1, FALSE)
            /\ result' = Some(read_ccar(easting, northing, raster))
            /\ pc' = "done"
            /\ UNCHANGED raised
    /\ UNCHANGED << self, snap_to_river, fn, easting_raw, northing_raw,
                    easting, northing, min_ccar, max_depths, depth, raster,
                    fail_at, best_cell, extra_depths, rings, cell_dicts,
                    border_dicts >>

InitRead ==
    /\ InitCall
    /\ fn = "read"
    /\ fail_at \in FailPoints
    /\ \E A \in AtMostOne(Near), v \in MarkedValues :
          raster = MarkedRaster(5, A, v)
    /\ \E p \in CallPoints :
          /\ easting_raw = p[1] /\ northing_raw = p[2]
          /\ easting = p[1] /\ northing = p[2]
    /\ min_ccar = DEFAULT_MIN_CCAR
    /\ max_depths = 0
    /\ depth = 0

\* Both searches and read_ccar on its own, over the same rasters.
InitHandles == InitCalls \/ InitRead

NextHandles ==
    \/ closest_call
    \/ closest_ring
    \/ closest_return
    \/ largest_call
    \/ largest_scan
    \/ read_call

SpecHandles == InitHandles /\ [][NextHandles]_vars

\* ------------------------------------- read_ccar_square alone (SpecSquare)
\* read_ccar_square called directly, without a raster_file, from a
\* grid-aligned centre: first with border_only=True for the depths 0, 1, ...,
\* depth in turn, then once with border_only=False for depth.  Without a
\* raster_file every read_ccar opens and closes the raster itself.
SquareCentres == { Site, << 0, 0 >>, << -1050, 50 >> }

InitSquare ==
    /\ InitCall
    /\ fn = "square"
    /\ fail_at = None
    /\ min_ccar = DEFAULT_MIN_CCAR
    /\ depth \in 0..MaxDeep
    /\ max_depths = depth
    /\ raster = MarkedRaster(5, { << 0, 0 >> }, DEFAULT_MIN_CCAR)
    /\ \E p \in SquareCentres :
          /\ easting_raw = p[1] /\ northing_raw = p[2]
          /\ easting = p[1] /\ northing = p[2]

\* read_ccar_square(easting, northing, d, border_only=True) for the next d.
square_border ==
    /\ fn = "square"
    /\ pc = "start"
    /\ Len(rings) <= depth
    /\ LET d == Len(rings)
       IN  /\ cell_dicts' = read_ccar_square(easting, northing, d, TRUE, raster)
           /\ border_dicts' = border_dicts \o cell_dicts'
           /\ rings' = Append(rings, d)
           /\ samples' = samples + NumCells(d, TRUE)
           /\ opens' = opens + opens_by_reads(NumCells(d, TRUE), FALSE)
           /\ raster_file' = after_reads(raster_file, NumCells(d, TRUE), FALSE)
    /\ UNCHANGED << self, snap_to_river, fn, easting_raw, northing_raw,
                    easting, northing, min_ccar, max_depths, depth, raster,
                    fail_at, best_cell, extra_depths, pc, result, raised >>

\* read_ccar_square(easting, northing, depth, border_only=False).
square_full ==
    /\ fn = "square"
    /\ pc = "start"
    /\ Len(rings) = depth + 1
    /\ cell_dicts' = read_ccar_square(easting, northing, depth, FALSE, raster)
    /\ samples' = samples + NumCells(depth, FALSE)
    /\ opens' = opens + opens_by_reads(NumCells(depth, FALSE), FALSE)
    /\ raster_file' = after_reads(raster_file, NumCells(depth, FALSE), FALSE)
    /\ pc' = "done"
    /\ UNCHANGED << self, snap_to_river, fn, easting_raw, northing_raw,
                    easting, northing, min_ccar, max_depths, depth, raster,
                    fail_at, best_cell, extra_depths, rings, border_dicts,
                    result, raised >>

NextSquare ==
    \/ square_border
    \/ square_full

SpecSquare == InitSquare /\ [][NextSquare]_vars

\* ----------------------------------------------- base_round alone (SpecRound)
\* base_round(x, 50) applied to an integer coordinate x, positive or negative,
\* on or off the grid, and then applied again to its own result, as read_ccar
\* does with the coordinates the searches have already rounded.
InitRound ==
    /\ InitCall
    /\ fn = "round"
    /\ fail_at = None
    /\ min_ccar = DEFAULT_MIN_CCAR
    /\ max_depths = 0
    /\ depth = 0
    /\ raster = MarkedRaster(5, { << 0, 0 >> }, DEFAULT_MIN_CCAR)
    /\ easting_raw \in -MaxCoord..MaxCoord
    /\ easting = easting_raw
    /\ northing_raw = 0
    /\ northing = 0

\* easting = base_round(easting, 50), on the caller's coordinate.
round_call ==
    /\ fn = "round"
    /\ pc = "start"
    /\ easting' = base_round(easting, RESOLUTION)
    /\ pc' = "rounded"
    /\ UNCHANGED << self, snap_to_river, fn, easting_raw, northing_raw,
                    northing, min_ccar,
                    max_depths, depth, raster, fail_at, raster_file, opens,
                    samples, best_cell, extra_depths, rings, cell_dicts,
                    border_dicts, result, raised >>

\* easting = base_round(easting, 50), on a coordinate already rounded.
round_again ==
    /\ fn = "round"
    /\ pc = "rounded"
    /\ easting' = base_round(easting, RESOLUTION)
    /\ pc' = "done"
    /\ UNCHANGED << self, snap_to_river, fn, easting_raw, northing_raw,
                    northing, min_ccar,
                    max_depths, depth, raster, fail_at, raster_file, opens,
                    samples, best_cell, extra_depths, rings, cell_dicts,
                    border_dicts, result, raised >>

NextRound ==
    \/ round_call
    \/ round_again

SpecRound == InitRound /\ [][NextRound]_vars

\* ------------------------------------------------- geometry of the claims
\* Stated from the rounded centre (easting, northing), independently of the
\* enumeration of read_ccar_square.
Abs(x) == IF x < 0 THEN -x ELSE x
Max2(a, b) == IF a >= b THEN a ELSE b

\* Chebyshev ring index of a point, in cells.
Ring(p) ==
    Max2(Abs(p[1] - easting), Abs(p[2] - northing)) \div RESOLUTION

\* Squared Euclidean distance of a point to the centre.
DistSq(p) ==
    (p[1] - easting) * (p[1] - easting) + (p[2] - northing) * (p[2] - northing)

SquarePoints(d) ==
    { << easting + RESOLUTION * i, northing + RESOLUTION * j >> :
        i \in -d..d, j \in -d..d }

RingPoints(d) == { p \in SquarePoints(d) : Ring(p) = d }

Raw(p) == sample(raster, p[1], p[2])
Value(p) == IF Raw(p) = NODATA_RAW THEN NODATA_VALUE ELSE Raw(p)
Qualifies(p) == Value(p) >= min_ccar
PointOf(c) == << c.easting, c.northing >>

\* The points of a list of cell_dicts, and the cell at an offset in cells.
PointsOf(cells) == { PointOf(cells[i]) : i \in 1..Len(cells) }
CellAt(de, dn) ==
    << easting + RESOLUTION * de, northing + RESOLUTION * dn >>

\* read_ccar_square was last called directly with border_only=True, for the
\* depth LastRing.
BorderRead == fn = "square" /\ pc = "start" /\ rings # << >>
LastRing == rings[Len(rings)]
SquareDone == fn = "square" /\ pc = "done"

ClosestDone == pc = "done" /\ fn = "closest"
LargestDone == pc = "done" /\ fn = "largest"

\* The cells closest_ccar_above_val has read so far, in the order read.
RECURSIVE ScannedCells(_)
ScannedCells(k) ==
    IF k = 0 THEN << >>
    ELSE ScannedCells(k - 1)
         \o read_ccar_square(easting, northing, rings[k], TRUE, raster)

\* cells[i] is the first cell of the sequence that is best in the order
\* "smaller distance, then larger value" among the cells satisfying ok.
FirstNearest(cells, i, ok(_)) ==
    /\ ok(cells[i])
    /\ \A j \in 1..Len(cells) :
          ok(cells[j]) =>
            \/ cells[j].dist_sq > cells[i].dist_sq
            \/ cells[j].dist_sq = cells[i].dist_sq /\ cells[j].ccar < cells[i].ccar
            \/ /\ cells[j].dist_sq = cells[i].dist_sq
               /\ cells[j].ccar = cells[i].ccar
               /\ j >= i

\* cells[i] is the first cell of the sequence that is best in the order
\* "larger value, then smaller distance".
FirstLargest(cells, i) ==
    \A j \in 1..Len(cells) :
        \/ cells[j].ccar < cells[i].ccar
        \/ cells[j].ccar = cells[i].ccar /\ cells[j].dist_sq > cells[i].dist_sq
        \/ /\ cells[j].ccar = cells[i].ccar
           /\ cells[j].dist_sq = cells[i].dist_sq
           /\ j >= i

\* ----------------------------------------------------------------- claims

\* C1: for max_depths within the keys of DEPTH_CHECK_MAP (0..20), a cell
\* returned by closest_ccar_above_val has value >= min_ccar, lies within ring
\* max_depths of the rounded centre, and no cell of rings 0..max_depths with
\* value >= min_ccar is nearer to the centre: the early stop after the
\* DEPTH_CHECK_MAP extension misses no nearer qualifying cell.
C1_NearestQualifyingReturned ==
    (ClosestDone /\ max_depths \in DOMAIN DEPTH_CHECK_MAP /\ result # None) =>
        LET c == result[1]
        IN  /\ c.ccar = Value(PointOf(c))
            /\ c.ccar >= min_ccar
            /\ Ring(PointOf(c)) <= max_depths
            /\ c.dist_sq = DistSq(PointOf(c))
            /\ \A p \in SquarePoints(max_depths) :
                  Qualifies(p) => c.dist_sq <= DistSq(p)

\* C1 witness: the search stopped before max_depths and returned a cell of
\* a deeper ring than another qualifying cell, which is farther away.
C1_Witness ==
    /\ ClosestDone
    /\ result # None
    /\ Len(rings) <= max_depths
    /\ \E p \in SquarePoints(max_depths) :
          /\ Qualifies(p)
          /\ Ring(p) < Ring(PointOf(result[1]))
          /\ DistSq(p) > result[1].dist_sq

\* C2: closest_ccar_above_val returns None exactly when no cell of rings
\* 0..max_depths has value >= min_ccar, and then every ring 0..max_depths
\* has been scanned.
C2_NoneIffNoQualifyingCell ==
    ClosestDone =>
        /\ result = None <=> (\A p \in SquarePoints(max_depths) : ~Qualifies(p))
        /\ result = None => rings = [k \in 1..(max_depths + 1) |-> k - 1]

\* C2 witness: a search over more than the centre that returned None.
C2_Witness ==
    /\ ClosestDone
    /\ result = None
    /\ max_depths >= 1
    /\ samples = (2 * max_depths + 1) * (2 * max_depths + 1)

\* C3: a step replaces the current best only by a qualifying cell that is
\* strictly nearer, or as near with a strictly larger value; and at every
\* point of the search the best is, among the qualifying cells scanned, the
\* first enumerated of those of least distance and, among them, largest value.
C3_BestIsFirstNearest ==
    (fn = "closest" /\ pc \in {"loop", "done"}) =>
        LET cells == ScannedCells(Len(rings))
            ok(c) == c.ccar >= min_ccar
        IN  IF \A j \in 1..Len(cells) : ~ok(cells[j])
            THEN best_cell = None
            ELSE /\ best_cell # None
                 /\ \E i \in 1..Len(cells) :
                       cells[i] = best_cell[1] /\ FirstNearest(cells, i, ok)

C3_ReplacedOnlyByBetter ==
    (fn = "closest" /\ best_cell' # best_cell) =>
        /\ best_cell' # None
        /\ best_cell'[1].ccar >= min_ccar
        /\ \/ best_cell = None
           \/ best_cell'[1].dist_sq < best_cell[1].dist_sq
           \/ /\ best_cell'[1].dist_sq = best_cell[1].dist_sq
              /\ best_cell'[1].ccar > best_cell[1].ccar

C3_TieBreak == [](C3_BestIsFirstNearest /\ (pc = "done" /\ fn = "closest" => result = best_cell))
               /\ [][C3_ReplacedOnlyByBetter]_vars

\* C3 witness: two distinct qualifying cells of the same least distance and
\* the same value were scanned, and one of them was returned.
C3_Witness ==
    /\ ClosestDone
    /\ result # None
    /\ LET cells == ScannedCells(Len(rings))
       IN  \E i, j \in 1..Len(cells) :
              /\ i < j
              /\ cells[i] = result[1]
              /\ cells[j].ccar = cells[i].ccar
              /\ cells[j].dist_sq = cells[i].dist_sq

\* C4: when the rounded centre cell has value >= min_ccar, the centre is
\* returned with distance 0 whatever the other cells hold, and only ring 0
\* is sampled.
C4_CentreShortCircuit ==
    (ClosestDone /\ Qualifies(<< easting, northing >>)) =>
        /\ result = Some([easting |-> easting, northing |-> northing,
                          ccar |-> Value(<< easting, northing >>), dist_sq |-> 0])
        /\ rings = << 0 >>
        /\ samples = 1

\* C4 witness: the centre qualifies, a cell of ring 1 holds a larger value,
\* and the search was allowed to go deeper.
C4_Witness ==
    /\ ClosestDone
    /\ max_depths >= 1
    /\ Qualifies(<< easting, northing >>)
    /\ \E p \in RingPoints(1) : Value(p) > Value(<< easting, northing >>)

\* C5: largest_ccar_close_by reads the full (2*depth+1)^2 square and returns
\* a cell of maximum value, among those one of minimum distance, among those
\* the first in the order of read_ccar_square.
C5_LargestIsFirstOptimum ==
    (LargestDone /\ depth >= 0) =>
        LET cells == read_ccar_square(easting, northing, depth, FALSE, raster)
        IN  /\ samples = (2 * depth + 1) * (2 * depth + 1)
            /\ { PointOf(cells[j]) : j \in 1..Len(cells) } = SquarePoints(depth)
            /\ result # None
            /\ \A p \in SquarePoints(depth) :
                  \/ Value(p) < result[1].ccar
                  \/ Value(p) = result[1].ccar /\ DistSq(p) >= result[1].dist_sq
            /\ \E i \in 1..Len(cells) :
                  cells[i] = result[1] /\ FirstLargest(cells, i)

\* C5 witness: two cells share the maximum value at the same least distance.
C5_Witness ==
    /\ LargestDone
    /\ depth >= 1
    /\ result # None
    /\ \E p \in SquarePoints(depth) :
          /\ p # PointOf(result[1])
          /\ Value(p) = result[1].ccar
          /\ DistSq(p) = result[1].dist_sq

\* C6 (as claimed): among the cells of the square that share the maximum
\* value at the same distance, largest_ccar_close_by returns the southernmost
\* (smallest northing) and, among equally southern ones, the westernmost.
C6_SouthernThenWestern ==
    (LargestDone /\ result # None) =>
        \A p \in SquarePoints(depth) :
            (Value(p) = result[1].ccar /\ DistSq(p) = result[1].dist_sq) =>
                \/ result[1].northing < p[2]
                \/ result[1].northing = p[2] /\ result[1].easting <= p[1]

\* C7: for every positive depth and every raster, all values equal included,
\* largest_ccar_close_by returns a cell, never None.
C7_LargestAlwaysReturnsCell ==
    (LargestDone /\ depth > 0) =>
        /\ result # None
        /\ PointOf(result[1]) \in SquarePoints(depth)

\* C7 witness: a square of more than one cell, every cell with the same value.
C7_Witness ==
    /\ LargestDone
    /\ depth > 0
    /\ result # None
    /\ \A p \in SquarePoints(depth) : Value(p) = Value(<< easting, northing >>)

\* C8 (as claimed): a cell whose raw value is the no-data sentinel is never
\* returned by closest_ccar_above_val, whatever min_ccar is.
C8_ClosestNeverReturnsNoData ==
    (ClosestDone /\ result # None) => Raw(PointOf(result[1])) # NODATA_RAW

\* C9 (as claimed): when largest_ccar_close_by scans more than one cell, the
\* cell it returns is not a no-data cell.
C9_LargestNeverReturnsNoData ==
    (LargestDone /\ result # None /\ samples > 1) =>
        Raw(PointOf(result[1])) # NODATA_RAW

\* C9 (amended): largest_ccar_close_by returns a no-data cell only when every
\* cell scanned is itself no-data or holds a raw value of at most -999; as
\* soon as a scanned cell holds a valid value above -999, the cell returned
\* is not a no-data cell.
C9_NoDataReturnedOnlyIfNothingAbove ==
    (LargestDone /\ result # None /\ Raw(PointOf(result[1])) = NODATA_RAW) =>
        \A p \in SquarePoints(depth) :
            Raw(p) = NODATA_RAW \/ Raw(p) <= NODATA_VALUE

\* C9 witness: the square holds a no-data cell and a valid cell above -999,
\* and a valid cell is returned.
C9_Witness ==
    /\ LargestDone
    /\ depth >= 1
    /\ result # None
    /\ Raw(PointOf(result[1])) # NODATA_RAW
    /\ \E p \in SquarePoints(depth) : Raw(p) = NODATA_RAW
    /\ \E p \in SquarePoints(depth) : Raw(p) # NODATA_RAW /\ Raw(p) > NODATA_VALUE

\* The points whose values the call has read so far.
PointsRead ==
    IF fn = "closest"
    THEN UNION { RingPoints(rings[k]) : k \in 1..Len(rings) }
    ELSE IF pc = "done" THEN SquarePoints(depth) ELSE {}

\* C10 (as claimed): read_ccar maps the raw sentinel to -999, returns every
\* other raw value unchanged, and gives no other raw value the output it
\* gives the sentinel.
C10_NoDataOutputIsDistinct ==
    \A p \in PointsRead :
        LET out == read_ccar(p[1], p[2], raster)
        IN  /\ Raw(p) = NODATA_RAW => out = NODATA_VALUE
            /\ Raw(p) # NODATA_RAW => out = Raw(p)
            /\ Raw(p) # NODATA_RAW => out # NODATA_VALUE

\* C11: for every depth, the lists returned with border_only=True for the
\* depths 0..depth hold together exactly the grid points of the list returned
\* with border_only=False for depth, which are the points of the
\* (2*depth+1)^2 square; no point appears twice and none is omitted.
C11_BorderUnionIsSquare ==
    SquareDone =>
        /\ PointsOf(border_dicts) = PointsOf(cell_dicts)
        /\ PointsOf(cell_dicts) = SquarePoints(depth)
        /\ Len(border_dicts) = Cardinality(PointsOf(border_dicts))
        /\ Len(cell_dicts) = Cardinality(PointsOf(cell_dicts))
        /\ Len(cell_dicts) = (2 * depth + 1) * (2 * depth + 1)

\* C11 witness: the rings 0..20 and the full square of depth 20 were read.
C11_Witness ==
    /\ SquareDone
    /\ depth >= 20
    /\ Len(border_dicts) >= 41 * 41
    /\ Len(rings) = depth + 1

\* C12: with border_only=True and depth > 0, read_ccar_square returns the
\* 8*depth grid points at Chebyshev distance depth from the centre, each
\* once, and no point of a smaller ring; with depth 0 it returns the centre
\* alone, with distance 0.
C12_BorderIsRing ==
    BorderRead =>
        /\ PointsOf(cell_dicts) = RingPoints(LastRing)
        /\ \A i \in 1..Len(cell_dicts) : Ring(PointOf(cell_dicts[i])) = LastRing
        /\ Len(cell_dicts) = Cardinality(PointsOf(cell_dicts))
        /\ Len(cell_dicts) = IF LastRing = 0 THEN 1 ELSE 8 * LastRing
        /\ LastRing = 0 =>
              cell_dicts = << [easting |-> easting, northing |-> northing,
                               ccar |-> Value(<< easting, northing >>),
                               dist_sq |-> 0] >>

\* C12 witness: a ring of depth 20 was read with its four corners.
C12_Witness ==
    /\ BorderRead
    /\ LastRing >= 20
    /\ { CellAt(i * LastRing, j * LastRing) : i, j \in { -1, 1 } }
          \subseteq PointsOf(cell_dicts)

\* C13: with border_only=True the cells come in this order: the west column
\* (easting offset -depth) by increasing northing offset, the east column
\* (offset +depth) by increasing northing offset, the south row (northing
\* offset -depth) west to east without its corners, then the north row west
\* to east without its corners.
C13_BorderOrder ==
    (BorderRead /\ LastRing > 0) =>
        LET d == LastRing
        IN  /\ \A j \in 0..(2 * d) :
                  /\ PointOf(cell_dicts[1 + j]) = CellAt(-d, j - d)
                  /\ PointOf(cell_dicts[2 * d + 2 + j]) = CellAt(d, j - d)
            /\ \A j \in 0..(2 * d - 2) :
                  /\ PointOf(cell_dicts[4 * d + 3 + j]) = CellAt(j - d + 1, -d)
                  /\ PointOf(cell_dicts[6 * d + 2 + j]) = CellAt(j - d + 1, d)

\* C13 witness: a ring of depth 2 was read: 16 cells, from the south-west
\* corner to the cell west of the north-east corner.
C13_Witness ==
    /\ BorderRead
    /\ LastRing = 2
    /\ PointOf(cell_dicts[1]) = CellAt(-2, -2)
    /\ PointOf(cell_dicts[16]) = CellAt(1, 2)

\* C14: base_round(x, 50) is a multiple of 50 nearest to x (at most 25 away),
\* and when x is exactly halfway between two multiples (25 away from both)
\* the result is 50*m with m even.
C14_NearestHalfToEven ==
    (fn = "round" /\ pc = "rounded") =>
        /\ easting % RESOLUTION = 0
        /\ 2 * Abs(easting_raw - easting) <= RESOLUTION
        /\ 2 * Abs(easting_raw - easting) = RESOLUTION =>
              (easting \div RESOLUTION) % 2 = 0

\* C14 witness: an exact half was rounded towards zero, to an even multiple.
C14_Witness ==
    /\ fn = "round"
    /\ pc = "rounded"
    /\ 2 * Abs(easting_raw - easting) = RESOLUTION
    /\ Abs(easting) < Abs(easting_raw)
    /\ easting_raw < 0

\* C15: base_round applied to a value base_round returned gives that value.
C15_Idempotent ==
    [][(fn = "round" /\ pc = "rounded") => easting' = easting]_vars

\* C15 witness: a coordinate off the grid was rounded, and rounded again.
C15_Witness ==
    /\ fn = "round"
    /\ pc = "done"
    /\ easting # easting_raw
    /\ easting < 0

\* C16: for coordinates off the grid, every cell a search hands to read_ccar
\* for sampling, the point read_ccar then samples, the best cell held and the
\* cell returned all have easting and northing that are multiples of 50.
C16_OnGrid ==
    LET OnGrid(c) == /\ c.easting % RESOLUTION = 0
                     /\ c.northing % RESOLUTION = 0
        Sampled(c) == << base_round(c.easting, RESOLUTION),
                         base_round(c.northing, RESOLUTION) >>
    IN  (fn \in { "closest", "largest" }) =>
            /\ \A i \in 1..Len(cell_dicts) :
                  OnGrid(cell_dicts[i]) /\ Sampled(cell_dicts[i]) = PointOf(cell_dicts[i])
            /\ best_cell # None => OnGrid(best_cell[1])
            /\ result # None => OnGrid(result[1])

\* C16 witness: coordinates off the grid in both components, a ring of more
\* than one cell read, and a cell other than the centre returned.
C16_Witness ==
    /\ pc = "done"
    /\ fn = "closest"
    /\ easting_raw % RESOLUTION # 0
    /\ northing_raw % RESOLUTION # 0
    /\ Len(cell_dicts) > 1
    /\ result # None
    /\ result[1].dist_sq > 0

\* C17: the distance of the cell returned by either search is
\* 50*sqrt(de^2 + dn^2) for its offsets (de, dn), in cells, from the rounded
\* centre, which is the multiple of 50 nearest to the coordinates given; it
\* is not the distance to the coordinates given when these are off the grid.
C17_DistanceFromRoundedCentre ==
    ((ClosestDone \/ LargestDone) /\ result # None) =>
        LET c == result[1]
            de == (c.easting - easting) \div RESOLUTION
            dn == (c.northing - northing) \div RESOLUTION
            raw_sq == (c.easting - easting_raw) * (c.easting - easting_raw)
                      + (c.northing - northing_raw) * (c.northing - northing_raw)
        IN  /\ easting % RESOLUTION = 0
            /\ northing % RESOLUTION = 0
            /\ 2 * Abs(easting_raw - easting) <= RESOLUTION
            /\ 2 * Abs(northing_raw - northing) <= RESOLUTION
            /\ c.easting = easting + RESOLUTION * de
            /\ c.northing = northing + RESOLUTION * dn
            /\ c.dist_sq = RESOLUTION * RESOLUTION * (de * de + dn * dn)
            /\ << easting_raw, northing_raw >> # << easting, northing >> =>
                  c.dist_sq # raw_sq

\* C17 witness: largest_ccar_close_by, given coordinates off the grid,
\* returned a cell off both axes of the rounded centre.
C17_Witness ==
    /\ LargestDone
    /\ result # None
    /\ << easting_raw, northing_raw >> # << easting, northing >>
    /\ result[1].easting # easting
    /\ result[1].northing # northing

\* C18 (as claimed): a search opens the raster once, and whenever the call
\* has ended, by returning or by raising, the raster is closed.
C18_HandleClosedOnEveryExit ==
    (fn \in { "closest", "largest" } /\ pc \in { "done", "raised" }) =>
        /\ opens = 1
        /\ raster_file = "closed"

\* C19 (as claimed): a search called with max_depths <= 0
\* (closest_ccar_above_val) or depth <= 0 (largest_ccar_close_by) samples no
\* point and does not return.
C19_NonPositiveDepthRejected ==
    (\/ fn = "closest" /\ max_depths <= 0
     \/ fn = "largest" /\ depth <= 0) =>
        /\ samples = 0
        /\ pc # "done"

\* The sampler raised during the call.
SamplerRaised == raised = Some("RasterioIOError")

\* C20: a search ends by raising exactly when it samples the point at which
\* the sampler raises.  It then returns nothing, the point that failed is the
\* last one sampled (the count of samples lies within the ring or square
\* being read), and no step follows: nothing more is sampled and the point
\* is not sampled again.  A search that returns, with a cell or with None,
\* has not sampled that point.
C20_Aborted ==
    fn \in { "closest", "largest" } =>
        /\ SamplerRaised =>
              /\ pc = "raised"
              /\ result = None
              /\ fail_at # None
              /\ fail_at[1] \notin PointsRead
              /\ IF fn = "closest"
                 THEN /\ fail_at[1] \in RingPoints(depth)
                      /\ samples <= (2 * depth + 1) * (2 * depth + 1)
                      /\ depth > 0 => samples > (2 * depth - 1) * (2 * depth - 1)
                 ELSE /\ fail_at[1] \in SquarePoints(depth)
                      /\ samples <= (2 * depth + 1) * (2 * depth + 1)
              /\ samples >= 1
        /\ (~SamplerRaised /\ fail_at # None) => fail_at[1] \notin PointsRead

C20_SamplerFailureAborts == [] C20_Aborted /\ [][pc # "raised"]_vars

\* C20 witness: closest_ccar_above_val raised beyond the centre, on a raster
\* that holds a cell it would otherwise have returned.
C20_Witness ==
    /\ fn = "closest"
    /\ pc = "raised"
    /\ SamplerRaised
    /\ samples > 1
    /\ \E p \in SquarePoints(max_depths) : Qualifies(p)

\* C21 (as claimed): in the scenario, with max_depths 20, the search returns
\* the cell with value 250.
C21_Returns250 ==
    (ClosestDone /\ max_depths = SNAP_MAX_DEPTHS) =>
        result # None /\ result[1].ccar = 250

\* C21 (amended): in the scenario the search returns the cell (1000, 1950)
\* with value 300, which is one cell (distance 50) south of the centre; the
\* cell with value 250 is the diagonal neighbour (1050, 2050), at distance
\* 50*sqrt(2), and is not returned.
C21_Returns300 ==
    ClosestDone =>
        result = Some([easting |-> 1000, northing |-> 1950, ccar |-> 300,
                       dist_sq |-> RESOLUTION * RESOLUTION])

\* C21 witness: the scenario as given, from the centre (1000, 2000) with
\* max_depths 20: the cell with 250 was read before the cell with 300, and
\* the search stopped after ring 1.
C21_Witness ==
    /\ ClosestDone
    /\ max_depths = SNAP_MAX_DEPTHS
    /\ << easting_raw, northing_raw >> = Site
    /\ rings = << 0, 1 >>
    /\ \E i, j \in 1..Len(cell_dicts) :
          i < j /\ cell_dicts[i].ccar = 250 /\ cell_dicts[j].ccar = 300

\* ------------------------------------------ the extension table in a search
\* The keys of the table, and the largest of them.
TableDepths == DOMAIN DEPTH_CHECK_MAP
MaxKey == CHOOSE k \in TableDepths : \A j \in TableDepths : j <= k

\* The search has just scanned a ring (LastRing) that produced the best cell
\* it holds: line 814 ran in that ring, for that ring's depth.
NewBestInLastRing ==
    /\ fn = "closest"
    /\ pc = "loop"
    /\ rings # << >>
    /\ best_cell # None
    /\ extra_depths # None
    /\ Ring(PointOf(best_cell[1])) = LastRing

\* The points of a raster that are marked and qualify; they are all the
\* qualifying points when the background value is below min_ccar.
QualifyingMarks == { p \in DOMAIN raster.cells : Qualifies(p) }
BackgroundQualifies ==
    (IF raster.bg = NODATA_RAW THEN NODATA_VALUE ELSE raster.bg) >= min_ccar

\* C22: when a ring d has produced a best cell and the table has given the
\* number of extra rings, every ring r of the table beyond d + extra is
\* strictly farther from the centre (its nearest points are 50*r away) than
\* every cell read in ring d: r^2 > 2*d^2 at the corners of ring d.
C22_TableIsSound ==
    NewBestInLastRing =>
        \A r \in TableDepths :
            r > LastRing + extra_depths[1] =>
                /\ r * r > 2 * LastRing * LastRing
                /\ \A i \in 1..Len(cell_dicts) :
                      RESOLUTION * RESOLUTION * r * r > cell_dicts[i].dist_sq

\* C22 witness: a best cell found in ring 12, where the table gives 4 extra
\* rings and ring 17 is the first left out (17^2 = 289 > 288 = 2 * 12^2).
C22_Witness ==
    /\ NewBestInLastRing
    /\ LastRing = 12
    /\ extra_depths = Some(4)
    /\ max_depths >= 17

\* C23 (as claimed): the counter is set from the table only by a ring that
\* produced a new best.  When the best cell held comes from an earlier ring b
\* than the last ring scanned, the counter is the table's value for b less
\* the number of rings scanned since.
C23_BudgetSetOnlyOnNewBest ==
    (/\ fn = "closest"
     /\ pc = "loop"
     /\ rings # << >>
     /\ best_cell # None
     /\ Ring(PointOf(best_cell[1])) < LastRing) =>
        LET b == Ring(PointOf(best_cell[1]))
        IN  extra_depths = Some(DEPTH_CHECK_MAP[b] - (LastRing - b))

\* C24: for max_depths within the table, a ring that changes the counter
\* other than by the decrement at the top of the loop leaves it at least as
\* large as the decremented value.  (Every assignment at line 814 within one
\* ring assigns the same value, the table's value for that ring.)
C24_CounterNeverShortened ==
    [][(/\ fn = "closest"
        /\ max_depths \in TableDepths
        /\ extra_depths # None
        /\ extra_depths' # None) =>
            extra_depths'[1] >= extra_depths[1] - 1]_vars

\* C24 witness: the counter was set again by a ring that did not improve
\* the best cell, to a value above the decremented one.
C24_Witness ==
    /\ fn = "closest"
    /\ pc = "loop"
    /\ rings # << >>
    /\ best_cell # None
    /\ max_depths \in TableDepths
    /\ Ring(PointOf(best_cell[1])) < LastRing
    /\ extra_depths # None
    /\ extra_depths[1] >
         DEPTH_CHECK_MAP[Ring(PointOf(best_cell[1]))]
           - (LastRing - Ring(PointOf(best_cell[1])))

\* C25: let a qualifying cell of a scanned ring d be strictly nearer than
\* every qualifying cell of the rings before d, so that ring d produced a new
\* best.  When the search returns it has scanned at least the rings up to
\* min(d + DEPTH_CHECK_MAP[d], max_depths); and if no ring after d holds a
\* qualifying cell, the last ring it scanned is exactly that one.
C25_ExtensionIsScanned ==
    (/\ ClosestDone
     /\ max_depths \in TableDepths
     /\ ~BackgroundQualifies) =>
        \A p \in QualifyingMarks :
            LET d == Ring(p)
                stop == IF d + DEPTH_CHECK_MAP[d] <= max_depths
                        THEN d + DEPTH_CHECK_MAP[d] ELSE max_depths
            IN  (/\ d < Len(rings)
                 /\ \A q \in QualifyingMarks :
                       Ring(q) < d => DistSq(q) > DistSq(p)) =>
                    /\ LastRing >= stop
                    /\ (\A q \in QualifyingMarks : Ring(q) <= d) =>
                          LastRing = stop

\* C25 witness: the only qualifying cell lies in ring 13; the five rings
\* 14..18 were scanned without improving the best cell, and the search
\* stopped there although max_depths allowed more.
C25_Witness ==
    /\ ClosestDone
    /\ result # None
    /\ QualifyingMarks = { PointOf(result[1]) }
    /\ Ring(PointOf(result[1])) = 13
    /\ LastRing = 18
    /\ max_depths > 18

\* The largest r with r^2 <= 2*d^2: floor(d * sqrt(2)).
FloorRoot2(d) ==
    CHOOSE r \in 0..(2 * d) : r * r <= 2 * d * d /\ (r + 1) * (r + 1) > 2 * d * d

\* C30: the value the table gives for a ring d that produced a best cell is
\* min(floor(d*sqrt(2)) - d, 20 - d), 20 being the largest key: d plus the
\* value never exceeds 20, and whenever floor(d*sqrt(2)) is itself a key
\* (d <= 14) the last extra ring r = d + value has r^2 <= 2*d^2, its nearest
\* points being no farther than the corners of ring d.
C30_TableIsTight ==
    NewBestInLastRing =>
        LET d == LastRing
            r == d + extra_depths[1]
        IN  /\ extra_depths[1] = IF FloorRoot2(d) <= MaxKey
                                 THEN FloorRoot2(d) - d ELSE MaxKey - d
            /\ r <= MaxKey
            /\ d <= 14 <=> FloorRoot2(d) <= MaxKey
            /\ d <= 14 =>
                  /\ r * r <= 2 * d * d
                  /\ \E i \in 1..Len(cell_dicts) :
                        RESOLUTION * RESOLUTION * r * r <= cell_dicts[i].dist_sq

\* C30 witness: a best cell found in ring 14, where the table gives 5 and
\* ring 19 is still within reach of the corners of ring 14 (361 <= 392).
C30_Witness ==
    /\ NewBestInLastRing
    /\ LastRing = 14
    /\ extra_depths = Some(5)
    /\ max_depths >= 19

\* C26: the rings scanned are 0, 1, 2, ... in this order, each once, none
\* deeper than max_depths, so at most max_depths + 1 of them; and the call
\* ends.
C26_RingsInOrder ==
    fn = "closest" =>
        /\ rings = [k \in 1..Len(rings) |-> k - 1]
        /\ \A k \in 1..Len(rings) : rings[k] <= max_depths
        /\ Len(rings) <= max_depths + 1
        /\ samples <= (2 * max_depths + 1) * (2 * max_depths + 1)

C26_Terminates == [] C26_RingsInOrder /\ <>(pc \in { "done", "raised" })

\* C26 witness: a search that went through all max_depths + 1 = 21 rings.
C26_Witness ==
    /\ ClosestDone
    /\ max_depths = 20
    /\ Len(rings) = max_depths + 1

\* C27 (as claimed): for every positive max_depths, above 20 included, the
\* search ends with a cell or with None: the table lookup never fails.
C27_LookupAlwaysDefined ==
    (fn = "closest" /\ max_depths > 0) =>
        /\ raised = None
        /\ pc # "raised"

\* ------------------------------------ C28
\* The snapping search as _river_snapping calls it.
SnapSearch == snap_to_river /\ min_ccar = SNAP_MIN_CCAR
                            /\ max_depths = SNAP_MAX_DEPTHS
HasCoordinates == { "easting", "northing" } \subseteq DOMAIN self

\* C28: with snap_to_river set, the object gets coordinates only from a cell
\* the search (threshold 200, 20 rings) found, and they are exactly that
\* cell's; when the search returns None the construction ends with
\* UserWarning with only the raw coordinates set, no region and no descriptor
\* attribute; a construction never ends any other way.
C28_NoSilentFallback ==
    /\ snap_to_river /\ DOMAIN self # {} => SnapSearch
    /\ snap_to_river /\ HasCoordinates =>
          /\ result # None
          /\ self.easting = result[1].easting
          /\ self.northing = result[1].northing
          /\ result[1].ccar >= SNAP_MIN_CCAR
          /\ raised = None
    /\ snap_to_river /\ fn = "CatchmentData" /\ pc = "raised" =>
          /\ result = None
          /\ raised = Some("UserWarning")
          /\ DOMAIN self = { "easting_raw", "northing_raw" }
    /\ DOMAIN self \cap LaterAttributes # {} =>
          /\ HasCoordinates
          /\ pc = "done"
    /\ snap_to_river /\ fn = "CatchmentData" /\ pc \in { "region", "done" } =>
          HasCoordinates

\* A construction with snap_to_river whose search found no cell although the
\* raster has one at the threshold (beyond the 20 rings): it ended with
\* UserWarning.
C28_Witness ==
    /\ snap_to_river
    /\ fn = "CatchmentData"
    /\ pc = "raised"
    /\ raised = Some("UserWarning")
    /\ Len(rings) = SNAP_MAX_DEPTHS + 1
    /\ \E p \in DOMAIN raster.cells : raster.cells[p] >= SNAP_MIN_CCAR

\* ------------------------------------ C29
InSearch == fn \in { "closest", "largest" }

\* C29: a search opens the raster once; while it runs, however many cells it
\* has sampled, and when a sample raised, that handle is open and no other was
\* opened; it is closed once the search has returned.  read_ccar called
\* without a handle has opened one and closed it when it returns its value.
C29_HandleOwnership ==
    /\ InSearch => opens = (IF pc = "start" THEN 0 ELSE 1)
    /\ InSearch /\ pc \in { "loop", "scan", "raised" } => raster_file = "open"
    /\ InSearch /\ pc = "done" => raster_file = "closed"
    /\ fn = "read" /\ pc = "done" =>
          /\ raster_file = "closed"
          /\ opens = 1
          /\ samples = 1
          /\ result # None

\* A search of closest_ccar_above_val between two rings, after the samples
\* of a whole ring beyond the centre: its handle is open and the only one.
C29_Witness ==
    /\ fn = "closest"
    /\ pc = "loop"
    /\ Len(rings) >= 2
    /\ samples >= NumCells(0, TRUE) + NumCells(1, TRUE)
    /\ raster_file = "open"
    /\ opens = 1

====
